---- MODULE Spec2Model ----
(***************************************************************************)
(* The monthly base-rate / apartment-price predictor of src/app.py, a      *)
(* Streamlit script.  The script runs top to bottom once when the page is  *)
(* opened and once more after every widget change.  The state is the CSV   *)
(* file, the st.cache_data entry of load_data, the widget values and what  *)
(* the last run of the script left behind (its working frames and what it  *)
(* put on the page).                                                       *)
(*                                                                         *)
(* Rates are in tenths of a percent (the step of the rate slider), so the  *)
(* regression is computed in exact integer/rational arithmetic.  A date is *)
(* <<year, month, day>>, a year-month label is <<year, month>>: the label  *)
(* "%Y년 %m월" orders as a string exactly as the pair does.                *)
(***************************************************************************)
EXTENDS Integers, Sequences, FiniteSets, TLC

VARIABLES csv, cache, widgets, data, region_data, out

vars == <<csv, cache, widgets, data, region_data, out>>

\* A missing cell (NaN) of the rate or price column.
NA == -1

(***************************************************************************)
(* Generic helpers                                                         *)
(***************************************************************************)
RECURSIVE SumSeq(_)
SumSeq(s) == IF s = <<>> THEN 0 ELSE s[1] + SumSeq(Tail(s))

Range(s) == {s[i] : i \in 1..Len(s)}

(***************************************************************************)
(* Dates and year-month labels                                             *)
(***************************************************************************)
DateLeq(a, b) ==
    \/ a[1] < b[1]
    \/ a[1] = b[1] /\ a[2] < b[2]
    \/ a[1] = b[1] /\ a[2] = b[2] /\ a[3] <= b[3]

\* df["날짜"].dt.strftime("%Y년 %m월")
strftime(d) == <<d[1], d[2]>>

\* String order of two labels (four-digit year, zero-padded month).
LabelLeq(a, b) == a[1] < b[1] \/ (a[1] = b[1] /\ a[2] <= b[2])

\* pd.to_datetime(ym_str.replace("년 ", "-").replace("월", "-01"))
ym_to_date(ym) == <<ym[1], ym[2], 1>>

\* sorted(set of labels), ascending
RECURSIVE SortedLabels(_)
SortedLabels(S) ==
    IF S = {} THEN <<>>
    ELSE LET m == CHOOSE x \in S : \A y \in S : LabelLeq(x, y)
         IN  <<m>> \o SortedLabels(S \ {m})

\* sorted(set of integers), ascending
RECURSIVE SortedInts(_)
SortedInts(S) ==
    IF S = {} THEN <<>>
    ELSE LET m == CHOOSE x \in S : \A y \in S : x <= y
         IN  <<m>> \o SortedInts(S \ {m})

(***************************************************************************)
(* load_data: read the file, keep the rows with a rate and a price, label  *)
(* each with its year-month.  A row keeps its index label (idx).           *)
(***************************************************************************)
read_csv(file) ==
    [i \in 1..Len(file) |->
        [idx |-> i, region |-> file[i].region, date |-> file[i].date,
         rate |-> file[i].rate, price |-> file[i].price]]

HasRateAndPrice(r) == r.rate # NA /\ r.price # NA

\* A dropna on the price column alone.
HasPrice(r) == r.price # NA

dropna_price_only(df) == SelectSeq(df, HasPrice)

dropna_rate_price(df) == SelectSeq(df, HasRateAndPrice)

load_data(file) ==
    LET df == dropna_rate_price(read_csv(file))
    IN  [i \in 1..Len(df) |->
            [idx |-> df[i].idx, region |-> df[i].region, date |-> df[i].date,
             rate |-> df[i].rate, price |-> df[i].price,
             ym |-> strftime(df[i].date)]]

(***************************************************************************)
(* data.sort_values(by=["지역", "날짜"]): a stable sort                     *)
(***************************************************************************)
KeyLeq(a, b) ==
    \/ a.region < b.region
    \/ a.region = b.region /\ DateLeq(a.date, b.date)

RECURSIVE InsertRow(_, _)
InsertRow(s, r) ==
    IF s = <<>> THEN <<r>>
    ELSE IF KeyLeq(s[Len(s)], r) THEN Append(s, r)
    ELSE Append(InsertRow(SubSeq(s, 1, Len(s) - 1), r), s[Len(s)])

RECURSIVE sort_values(_)
sort_values(df) ==
    IF df = <<>> THEN <<>>
    ELSE InsertRow(sort_values(SubSeq(df, 1, Len(df) - 1)), df[Len(df)])

(***************************************************************************)
(* data.groupby("지역")["기준금리"].shift(lag_months)                       *)
(***************************************************************************)
\* The rows of row i's group that come before it.
GroupPos(df, i) == Cardinality({j \in 1..(i - 1) : df[j].region = df[i].region})

\* The groups of a frame shifted all at once without groupby.
ShiftUngrouped(df, k) ==
    [i \in 1..Len(df) |-> IF i - k >= 1 THEN df[i - k].rate ELSE NA]

shift(df, k) ==
    [i \in 1..Len(df) |->
        IF GroupPos(df, i) >= k
        THEN LET j == CHOOSE j \in 1..i :
                        /\ df[j].region = df[i].region
                        /\ GroupPos(df, i) - GroupPos(df, j) = k
             IN  df[j].rate
        ELSE NA]

\* data["기준금리_시차"] = ...
with_lag(df, k) ==
    LET col == shift(df, k)
    IN  [i \in 1..Len(df) |->
            [idx |-> df[i].idx, region |-> df[i].region, date |-> df[i].date,
             rate |-> df[i].rate, price |-> df[i].price, ym |-> df[i].ym,
             lag |-> col[i]]]

(***************************************************************************)
(* The filter of section 5 of the script                                   *)
(***************************************************************************)
filter_rows(df, region, start_date, end_date) ==
    SelectSeq(df, LAMBDA r : /\ r.region = region
                              /\ DateLeq(start_date, r.date)
                              /\ DateLeq(r.date, end_date))

HasLagAndPrice(r) == r.lag # NA /\ r.price # NA

dropna_lag_price(df) == SelectSeq(df, HasLagAndPrice)

\* if not region_data.empty and len(region_data) >= 3
MinObservations == 3

\* A guard that lets two observations through.
EnoughDataFromTwo(df) == df # <<>> /\ Len(df) >= MinObservations - 1

EnoughData(df) == df # <<>> /\ Len(df) >= MinObservations

(***************************************************************************)
(* make_pipeline(PolynomialFeatures(degree=2), LinearRegression())         *)
(*                                                                         *)
(* LinearRegression centres the columns and solves the least-squares       *)
(* problem with lstsq, which returns the minimum-norm solution when the    *)
(* centred columns are dependent.  The fitted model is kept as integers    *)
(* over one positive denominator:                                          *)
(*     price(f) = (intercept + coef[1]*f[1] + coef[2]*f[2] + coef[3]*f[3]) *)
(*                / den                                                    *)
(***************************************************************************)
PolynomialFeatures(x) == <<1, x, x * x>>

\* The sums over the expanded rates F and the prices y.
Moments(F, y) ==
    [n   |-> Len(F),
     Sx  |-> SumSeq([i \in 1..Len(F) |-> F[i][2]]),
     Sz  |-> SumSeq([i \in 1..Len(F) |-> F[i][3]]),
     Sy  |-> SumSeq(y),
     Sxx |-> SumSeq([i \in 1..Len(F) |-> F[i][2] * F[i][2]]),
     Sxz |-> SumSeq([i \in 1..Len(F) |-> F[i][2] * F[i][3]]),
     Szz |-> SumSeq([i \in 1..Len(F) |-> F[i][3] * F[i][3]]),
     Sxy |-> SumSeq([i \in 1..Len(F) |-> F[i][2] * y[i]]),
     Szy |-> SumSeq([i \in 1..Len(F) |-> F[i][3] * y[i]])]

\* n^2 times the second moments of the centred columns.
Centred(m) ==
    [Axx |-> m.n * m.Sxx - m.Sx * m.Sx,
     Axz |-> m.n * m.Sxz - m.Sx * m.Sz,
     Azz |-> m.n * m.Szz - m.Sz * m.Sz,
     Axy |-> m.n * m.Sxy - m.Sx * m.Sy,
     Azy |-> m.n * m.Szy - m.Sz * m.Sy]

\* The least-squares solution on the centred columns, and the intercept.
lstsq(m, A) ==
    LET Det == A.Axx * A.Azz - A.Axz * A.Axz
        Bn  == A.Axy * A.Azz - A.Azy * A.Axz
        Cn  == A.Azy * A.Axx - A.Axy * A.Axz
        G   == A.Axx * A.Axx + A.Axz * A.Axz
    IN  IF Det # 0
        THEN \* full rank: the normal equations have one solution
             [den |-> m.n * Det,
              intercept |-> m.Sy * Det - Bn * m.Sx - Cn * m.Sz,
              coef |-> <<0, m.n * Bn, m.n * Cn>>]
        ELSE IF A.Axx # 0
        THEN \* rank 1: the minimum-norm solution, along (Axx, Axz)
             [den |-> m.n * G,
              intercept |-> m.Sy * G - A.Axy * A.Axx * m.Sx - A.Axy * A.Axz * m.Sz,
              coef |-> <<0, m.n * A.Axy * A.Axx, m.n * A.Axy * A.Axz>>]
        ELSE \* every rate equal: both coefficients 0, the mean price
             [den |-> m.n, intercept |-> m.Sy, coef |-> <<0, 0, 0>>]

FitMoments(m) == lstsq(m, Centred(m))

fit(X, y) == FitMoments(Moments([i \in 1..Len(X) |-> PolynomialFeatures(X[i])], y))

\* A pipeline that hands the query rate to the regression unexpanded.
QueryFeaturesUnexpanded(q) == <<1, q, q>>

\* poly_model.predict applies the pipeline's PolynomialFeatures to the query.
QueryFeatures(q) == PolynomialFeatures(q)

predict(model, q) ==
    LET f == QueryFeatures(q)
    IN  [num |-> model.intercept + model.coef[1] * f[1]
                 + model.coef[2] * f[2] + model.coef[3] * f[3],
         den |-> model.den]

\* f"{predicted_price:,.0f}": the nearest integer, a tie to the even one
FormatPrice(p) ==
    LET fl  == p.num \div p.den
        rem == p.num - fl * p.den
    IN  IF 2 * rem < p.den THEN fl
        ELSE IF 2 * rem > p.den THEN fl + 1
        ELSE IF fl % 2 = 0 THEN fl ELSE fl + 1

(***************************************************************************)
(* region_data["기준금리_시차"].corr(region_data["평균가격"])               *)
(* Pearson's coefficient cov / sqrt(varx * vary), NaN when the divisor is  *)
(* 0.  The exact value is num / sqrt(den2).                                *)
(***************************************************************************)
\* n^2 times the variances and the covariance of two columns.
Covariances(x, y) ==
    [Axx |-> Len(x) * SumSeq([i \in 1..Len(x) |-> x[i] * x[i]]) - SumSeq(x) * SumSeq(x),
     Ayy |-> Len(x) * SumSeq([i \in 1..Len(x) |-> y[i] * y[i]]) - SumSeq(y) * SumSeq(y),
     Axy |-> Len(x) * SumSeq([i \in 1..Len(x) |-> x[i] * y[i]]) - SumSeq(x) * SumSeq(y)]

\* A coefficient that is 0 for a constant column.
PearsonZeroForConstant(A) ==
    IF A.Axx * A.Ayy = 0 THEN [nan |-> FALSE, num |-> 0, den2 |-> 1]
    ELSE [nan |-> FALSE, num |-> A.Axy, den2 |-> A.Axx * A.Ayy]

Pearson(A) ==
    IF A.Axx * A.Ayy = 0 THEN [nan |-> TRUE, num |-> 0, den2 |-> 1]
    ELSE [nan |-> FALSE, num |-> A.Axy, den2 |-> A.Axx * A.Ayy]

corr(x, y) == Pearson(Covariances(x, y))

\* The largest t in lo..hi with (t - 1/2)^2 * den2 <= 10^6 * num^2,
\* that is, 1000 * |num| / sqrt(den2) rounded to the nearest integer.
RECURSIVE RoundedThousandths(_, _, _, _)
RoundedThousandths(num, den2, lo, hi) ==
    IF lo = hi THEN lo
    ELSE LET t == (lo + hi + 1) \div 2
         IN  IF (t * t - t) * den2 <= 1000000 * num * num - ((den2 + 3) \div 4)
             THEN RoundedThousandths(num, den2, t, hi)
             ELSE RoundedThousandths(num, den2, lo, t - 1)

\* f"{corr:.3f}": "nan" for NaN, else the coefficient in thousandths
FormatCorr(c) ==
    IF c.nan THEN [nan |-> TRUE, thousandths |-> 0]
    ELSE [nan |-> FALSE,
          thousandths |-> (IF c.num < 0 THEN -1 ELSE 1)
                          * RoundedThousandths(c.num, c.den2, 0, 1000)]

(***************************************************************************)
(* The widgets                                                             *)
(***************************************************************************)
\* st.sidebar.slider("기준금리 입력 (%)", 0.0, 10.0, 3.5, step=0.1), in tenths
RateSliderMin == 0
RateSliderMax == 100
RateSliderDefault == 35

\* st.sidebar.slider("시차 (개월)", min_value=0, max_value=12, value=3)
LagSliderMin == 0
LagSliderMax == 12
LagSliderDefault == 3

\* sorted(data["지역"].unique())
regions_of(df) == SortedInts({df[i].region : i \in 1..Len(df)})

\* sorted(data["년월"].unique())
ym_options_of(df) == SortedLabels({df[i].ym : i \in 1..Len(df)})

\* No selection: selectbox returns None for an empty list of options.
None == 0

NoLabel == <<0, 0>>

\* The widget values of the first run.
DefaultWidgets(df) ==
    LET regions    == regions_of(df)
        ym_options == ym_options_of(df)
    IN  [region     |-> IF regions = <<>> THEN None ELSE regions[1],
         start_ym   |-> IF ym_options = <<>> THEN NoLabel ELSE ym_options[1],
         end_ym     |-> IF ym_options = <<>> THEN NoLabel
                        ELSE ym_options[Len(ym_options)],
         input_rate |-> RateSliderDefault,
         lag_months |-> LagSliderDefault]

(***************************************************************************)
(* One run of the script on the frame load_data() returned                 *)
(***************************************************************************)
NoModel == [den |-> 1, intercept |-> 0, coef |-> <<0, 0, 0>>]

NoPage ==
    [status |-> "none", fitted |-> FALSE, model |-> NoModel,
     predicted |-> [num |-> 0, den |-> 1], metric |-> 0, has_metric |-> FALSE,
     corr |-> [nan |-> FALSE, num |-> 0, den2 |-> 1],
     corr_text |-> [nan |-> FALSE, thousandths |-> 0], has_corr |-> FALSE,
     caption_months |-> 0, charts |-> 0, warning |-> FALSE]

\* Sections 7 to 9: the metric, the coefficient, the caption, the two charts.
ResultPage(n, model, pred, c) ==
    [status |-> "result", fitted |-> TRUE, model |-> model,
     predicted |-> pred, metric |-> FormatPrice(pred), has_metric |-> TRUE,
     corr |-> c, corr_text |-> FormatCorr(c), has_corr |-> TRUE,
     caption_months |-> n, charts |-> 2, warning |-> FALSE]

\* Section 6: poly_model.predict(np.array([[input_rate]]))
PredictAndShow(n, model, q, c) == ResultPage(n, model, predict(model, q), c)

\* Section 6: X, y and poly_model.fit(X, y)
FitAndShow(X, y, q) == PredictAndShow(Len(X), fit(X, y), q, corr(X, y))

WarningPage == [NoPage EXCEPT !.status = "warning", !.warning = TRUE]

\* The branch on the length of region_data.
Sections6to9(sorted, rd, w) ==
    [data |-> sorted, region_data |-> rd,
     out |-> IF EnoughData(rd)
             THEN FitAndShow([i \in 1..Len(rd) |-> rd[i].lag],
                             [i \in 1..Len(rd) |-> rd[i].price], w.input_rate)
             ELSE WarningPage]

\* Section 5: the region and period filter, then dropna.
Sections5to9(sorted, w) ==
    Sections6to9(sorted,
                 dropna_lag_price(
                     filter_rows(sorted, w.region,
                                 ym_to_date(w.start_ym), ym_to_date(w.end_ym))),
                 w)

RunScript(loaded, w) ==
    IF ym_options_of(loaded) = <<>>
    THEN \* value=(ym_options[0], ym_options[-1]) raises IndexError
         [data |-> loaded, region_data |-> <<>>,
          out |-> [NoPage EXCEPT !.status = "exception"]]
    ELSE \* Section 4: sort and lag, then the rest
         Sections5to9(with_lag(sort_values(loaded), w.lag_months), w)

(***************************************************************************)
(* st.cache_data: load_data runs once; later runs get a copy of what it    *)
(* returned, and sort_values builds a new frame, so nothing the script     *)
(* does to its frame reaches the cached one.                               *)
(***************************************************************************)
\* A cache that hands out the cached object itself, sorted and extended in place.
CacheSharedWithScript(c, working) == [loaded |-> TRUE, value |-> working]

CacheAfterRun(c, working) == c

(***************************************************************************)
(* The files the model is run on                                           *)
(***************************************************************************)
Regions == {1, 2}

Dates ==
    {<<2020, 11, 1>>, <<2020, 12, 1>>, <<2021, 1, 1>>, <<2021, 1, 15>>, <<2021, 2, 1>>}

Rates == {1, 2, 3}

Prices == {1, 2, 3}

FileRows ==
    [region : Regions, date : Dates, rate : Rates \cup {NA}, price : Prices \cup {NA}]

\* Every file of at most one row.
SmallFiles == {<<>>} \cup {<<r>> : r \in FileRows}

\* The shortest series that is fitted: one region, one row a month on the
\* first day, with every choice of rates and prices.
MonthStarts == << <<2020, 11, 1>>, <<2020, 12, 1>>, <<2021, 1, 1>> >>

SeriesFiles ==
    {[i \in 1..MinObservations |->
        [region |-> 1, date |-> MonthStarts[i], rate |-> x[i], price |-> y[i]]] :
            x \in [1..MinObservations -> Rates], y \in [1..MinObservations -> Prices]}

\* Rows of the longest file.
MaxRows == 4

\* Longer files, one row for a region and a date, written in date order,
\* oldest or newest first: at most one row of region 2 at any place among
\* those of region 1, any dates (so with months left out, two rows in a
\* month, rows after the first day), rates and prices by the row's place,
\* and possibly a missing rate (row 2) or a missing price (row 3).
RowRate(i) == ((i - 1) % 3) + 1

RowPrice(i) == ((2 * i) % 3) + 1

RegionPatterns ==
    {g \in [1..MaxRows -> Regions] : Cardinality({i \in 1..MaxRows : g[i] = 2}) <= 1}

DatePatterns(g) ==
    {d \in [1..MaxRows -> Dates] :
        \A i \in 1..MaxRows : \A j \in (i + 1)..MaxRows :
            /\ DateLeq(d[i], d[j])
            /\ g[i] = g[j] => d[i] # d[j]}

Reverse(f) == [i \in 1..Len(f) |-> f[Len(f) + 1 - i]]

OldestFirstFiles ==
    {[i \in 1..MaxRows |->
        [region |-> gd[1][i], date |-> gd[2][i],
         rate  |-> IF miss = 1 /\ i = 2 THEN NA ELSE RowRate(i),
         price |-> IF miss = 2 /\ i = 3 THEN NA ELSE RowPrice(i)]] :
            gd \in UNION {{<<g, d>> : d \in DatePatterns(g)} : g \in RegionPatterns},
            miss \in 0..2}

MixedFiles == OldestFirstFiles \cup {Reverse(f) : f \in OldestFirstFiles}

Files == SmallFiles \cup SeriesFiles \cup MixedFiles

\* The values tried on the two sliders.
InputRates == {2, RateSliderDefault}

MaxLagTried == 1

Lags == {k \in LagSliderMin..LagSliderMax : k <= MaxLagTried \/ k = LagSliderDefault}

(***************************************************************************)
(* The state machine                                                       *)
(***************************************************************************)
NoWidgets ==
    [region |-> None, start_ym |-> NoLabel, end_ym |-> NoLabel,
     input_rate |-> RateSliderDefault, lag_months |-> LagSliderDefault]

Init ==
    /\ csv \in Files
    /\ cache = [loaded |-> FALSE, value |-> <<>>]
    /\ widgets = NoWidgets
    /\ data = <<>>
    /\ region_data = <<>>
    /\ out = NoPage

\* What a run r of the script with the widget values w, on the cache entry c,
\* leaves behind.
Finish(c, w, r) ==
    /\ widgets' = w
    /\ data' = r.data
    /\ region_data' = r.region_data
    /\ out' = r.out
    /\ cache' = CacheAfterRun(c, r.data)
    /\ UNCHANGED csv

\* A rerun of the script with the widget values w.
Run(w) == Finish(cache, w, RunScript(cache.value, w))

\* The first run, on the frame load_data() read.
FirstRun(loaded) ==
    Finish([loaded |-> TRUE, value |-> loaded], DefaultWidgets(loaded),
           RunScript(loaded, DefaultWidgets(loaded)))

\* The page is opened: load_data reads the file, the widgets take their defaults.
OpenPage ==
    /\ ~cache.loaded
    /\ FirstRun(load_data(csv))

\* The widgets exist once the script has got past them.
WidgetsShown == out.status \in {"result", "warning"}

SelectRegion ==
    /\ WidgetsShown
    /\ \E g \in Range(regions_of(cache.value)) :
          /\ g # widgets.region
          /\ Run([widgets EXCEPT !.region = g])

SelectPeriod ==
    /\ WidgetsShown
    /\ LET ym_options == ym_options_of(cache.value)
       IN  \E i \in 1..Len(ym_options) : \E j \in i..Len(ym_options) :
              /\ <<ym_options[i], ym_options[j]>> # <<widgets.start_ym, widgets.end_ym>>
              /\ Run([widgets EXCEPT !.start_ym = ym_options[i],
                                     !.end_ym = ym_options[j]])

SetInputRate ==
    /\ WidgetsShown
    /\ \E q \in InputRates :
          /\ q # widgets.input_rate
          /\ Run([widgets EXCEPT !.input_rate = q])

SetLag ==
    /\ WidgetsShown
    /\ \E k \in Lags :
          /\ k # widgets.lag_months
          /\ Run([widgets EXCEPT !.lag_months = k])

\* The page is reloaded in the same session: the widgets keep their values.
Rerun ==
    /\ cache.loaded
    /\ Run(widgets)

Next ==
    \/ OpenPage
    \/ SelectRegion
    \/ SelectPeriod
    \/ SetInputRate
    \/ SetLag
    \/ Rerun

Spec == Init /\ [][Next]_vars

(***************************************************************************)
(* Vocabulary of the properties                                            *)
(***************************************************************************)
\* The last run got past the widgets, to the filter of section 5.
Ran == out.status \in {"result", "warning"}

\* A region's rows of a frame, in the frame's order.
RegionRows(df, g) == SelectSeq(df, LAMBDA r : r.region = g)

LagValues == {region_data[i].lag : i \in 1..Len(region_data)}

PriceValues == {region_data[i].price : i \in 1..Len(region_data)}

\* Months since year 0 of a date.
MonthIndex(d) == 12 * d[1] + d[2]

(***************************************************************************)
(* C1: a model is fitted, and the prediction, the correlation and the two  *)
(* charts are shown, exactly when the series left by the region filter,    *)
(* the period filter and the removal of rows without a lagged rate or a    *)
(* price has at least 3 observations; with 0, 1 or 2 nothing is fitted and *)
(* the page shows the advisory alone.  (A run that faults before the       *)
(* filter fits and shows nothing.)                                         *)
(***************************************************************************)
ThmC1 ==
    /\ Ran =>
          /\ out.fitted <=> Len(region_data) >= 3
          /\ out.fitted =>
                /\ out.status = "result" /\ ~out.warning
                /\ out.has_metric /\ out.has_corr /\ out.charts = 2
                /\ out.caption_months = Len(region_data)
          /\ ~out.fitted =>
                /\ out.status = "warning" /\ out.warning
                /\ ~out.has_metric /\ ~out.has_corr /\ out.charts = 0
    /\ ~Ran => ~out.fitted /\ ~out.has_metric /\ ~out.has_corr /\ out.charts = 0

\* Two observations are left (a lag of one month on three rows): the advisory.
WitC1 ==
    /\ out.status = "warning" /\ out.warning
    /\ Len(region_data) = 2
    /\ widgets.lag_months = 1

(***************************************************************************)
(* C2: for every region and the lag k chosen, the region's rows of the     *)
(* working frame are the region's loaded rows in date order, each with the *)
(* rate of the row k places earlier in the same region, and with no lagged *)
(* rate when fewer than k rows of the region precede it; so no more rows   *)
(* carry a lagged rate than the region has, and with k = 0 every row       *)
(* carries its own rate.                                                   *)
(***************************************************************************)
LagTransformRight(g, k) ==
    LET input == RegionRows(cache.value, g)
        sub   == RegionRows(data, g)
        kept  == SelectSeq(sub, LAMBDA r : r.lag # NA)
    IN  /\ Len(sub) = Len(input)
        /\ {sub[p].idx : p \in 1..Len(sub)} = {input[p].idx : p \in 1..Len(input)}
        /\ \A p \in 1..Len(sub) :
              /\ sub[p].rate = csv[sub[p].idx].rate
              /\ csv[sub[p].idx].region = g
              /\ p < Len(sub) => DateLeq(sub[p].date, sub[p + 1].date)
              /\ sub[p].lag = IF p > k THEN sub[p - k].rate ELSE NA
        /\ Len(kept) <= Len(input)
        /\ k = 0 => kept = sub /\ \A p \in 1..Len(sub) : sub[p].lag = sub[p].rate

ThmC2 == Ran => \A g \in Regions : LagTransformRight(g, widgets.lag_months)

\* A lag of one month on a frame of two regions: a row of region 2 that
\* follows rows of region 1 in the frame has no lagged rate, others have one.
WitC2 ==
    /\ Ran
    /\ widgets.lag_months = 1
    /\ \E i \in 2..Len(data) :
          /\ data[i].region = 2 /\ data[i - 1].region = 1
          /\ data[i].lag = NA
    /\ \E i \in 1..Len(data) : data[i].lag # NA

(***************************************************************************)
(* C3: no run ends in an unhandled fault: every run ends with the result   *)
(* or with the advisory.                                                   *)
(***************************************************************************)
CexC3 == cache.loaded => out.status \in {"result", "warning"}

(***************************************************************************)
(* C4: when a series is fitted, the correlation is shown as "nan" exactly  *)
(* when the lagged rates or the prices are all equal, and as a number      *)
(* otherwise; the run ends with the result either way.                     *)
(***************************************************************************)
ZeroVariance == Cardinality(LagValues) = 1 \/ Cardinality(PriceValues) = 1

ThmC4 ==
    out.fitted =>
        /\ out.status = "result" /\ out.has_corr /\ out.has_metric /\ out.charts = 2
        /\ out.corr_text.nan <=> ZeroVariance
        /\ out.corr.nan <=> ZeroVariance
        /\ ~out.corr_text.nan =>
              out.corr_text.thousandths \in -1000..1000

\* A fitted series whose lagged rates are all equal, its prices not.
WitC4 ==
    /\ out.fitted
    /\ Cardinality(LagValues) = 1 /\ Cardinality(PriceValues) > 1
    /\ out.corr_text.nan

(***************************************************************************)
(* C5: every row of the working frame, and so every observation of the     *)
(* series and every row a lagged rate is taken from, is a row of the file  *)
(* with a rate and a price; every observation of the series has a price    *)
(* and a lagged rate, which is the rate of such a row of its region.       *)
(***************************************************************************)
ThmC5 ==
    Ran =>
        /\ \A i \in 1..Len(data) :
              /\ data[i].rate # NA /\ data[i].price # NA
              /\ csv[data[i].idx].rate = data[i].rate
              /\ csv[data[i].idx].price = data[i].price
        /\ \A i \in 1..Len(region_data) :
              /\ region_data[i].price # NA /\ region_data[i].lag # NA
              /\ csv[region_data[i].idx].rate # NA
              /\ csv[region_data[i].idx].price # NA
              /\ \E j \in 1..Len(csv) :
                    /\ csv[j].region = region_data[i].region
                    /\ csv[j].rate # NA /\ csv[j].price # NA
                    /\ csv[j].rate = region_data[i].lag
        /\ \A j \in 1..Len(csv) :
              (csv[j].rate = NA \/ csv[j].price = NA) =>
                  /\ \A i \in 1..Len(data) : data[i].idx # j
                  /\ \A i \in 1..Len(region_data) : region_data[i].idx # j

\* A series is fitted although a row of the selected region, dated inside
\* the selected period, has no rate or no price.
WitC5 ==
    /\ out.fitted
    /\ \E j \in 1..Len(csv) :
          /\ csv[j].rate = NA \/ csv[j].price = NA
          /\ csv[j].region = widgets.region
          /\ DateLeq(ym_to_date(widgets.start_ym), csv[j].date)
          /\ DateLeq(csv[j].date, ym_to_date(widgets.end_ym))

(***************************************************************************)
(* C6: after any interactions the cached dataset is what load_data read    *)
(* from the file (same rows, same order, no lag column), and what the last *)
(* run left is what the script computes from that dataset and the present  *)
(* widget values alone.                                                    *)
(***************************************************************************)
ThmC6 ==
    cache.loaded =>
        /\ cache.value = load_data(csv)
        /\ \A i \in 1..Len(cache.value) :
              DOMAIN cache.value[i] = {"idx", "region", "date", "rate", "price", "ym"}
        /\ [data |-> data, region_data |-> region_data, out |-> out]
               = RunScript(load_data(csv), widgets)

\* After a change of a widget, a run whose working frame is in another
\* order than the cached dataset and carries lagged rates.
WitC6 ==
    /\ cache.loaded /\ Ran
    /\ widgets # DefaultWidgets(cache.value)
    /\ [i \in 1..Len(data) |-> data[i].idx]
           # [i \in 1..Len(cache.value) |-> cache.value[i].idx]
    /\ \E i \in 1..Len(data) : data[i].lag # NA

(***************************************************************************)
(* C7: when the fitted series has at least 3 distinct lagged rates and all *)
(* its observations lie on one quadratic price = a + b*rate + c*rate^2,    *)
(* the fitted model is that quadratic (it agrees with it at 0, 1 and -1,   *)
(* so in a, b and c) and the prediction at the query rate q is             *)
(* a + b*q + c*q^2; at an observed rate the price shown is the observed    *)
(* price.                                                                  *)
(***************************************************************************)
\* Three observations with three different lagged rates.
ThreeRates ==
    CHOOSE t \in (1..Len(region_data)) \X (1..Len(region_data)) \X (1..Len(region_data)) :
        /\ region_data[t[1]].lag < region_data[t[2]].lag
        /\ region_data[t[2]].lag < region_data[t[3]].lag

\* W times the value at q of the quadratic through the observations p1, p2
\* and p3, where W is the product of the differences of their rates.
QuadraticW(p1, p2, p3) ==
    (p1.lag - p2.lag) * (p1.lag - p3.lag) * (p2.lag - p3.lag)

QuadraticAt(p1, p2, p3, q) ==
      p1.price * (q - p2.lag) * (q - p3.lag) * (p2.lag - p3.lag)
    - p2.price * (q - p1.lag) * (q - p3.lag) * (p1.lag - p3.lag)
    + p3.price * (q - p1.lag) * (q - p2.lag) * (p1.lag - p2.lag)

OnOneQuadratic(p1, p2, p3) ==
    \A i \in 1..Len(region_data) :
        region_data[i].price * QuadraticW(p1, p2, p3)
            = QuadraticAt(p1, p2, p3, region_data[i].lag)

\* The fitted model's price at rate t, times its denominator.
ModelAt(t) == out.model.intercept + out.model.coef[2] * t + out.model.coef[3] * t * t

RecoversQuadratic(p1, p2, p3) ==
    /\ \A t \in {0, 1, -1} :
          ModelAt(t) * QuadraticW(p1, p2, p3)
              = QuadraticAt(p1, p2, p3, t) * out.model.den
    /\ out.model.coef[1] = 0
    /\ out.predicted.num * QuadraticW(p1, p2, p3)
          = QuadraticAt(p1, p2, p3, widgets.input_rate) * out.predicted.den
    /\ \A i \in 1..Len(region_data) :
          region_data[i].lag = widgets.input_rate =>
              /\ out.predicted.num = region_data[i].price * out.predicted.den
              /\ out.metric = region_data[i].price

ThmC7 ==
    (out.fitted /\ Cardinality(LagValues) >= 3) =>
        (OnOneQuadratic(region_data[ThreeRates[1]], region_data[ThreeRates[2]],
                        region_data[ThreeRates[3]])
            => RecoversQuadratic(region_data[ThreeRates[1]], region_data[ThreeRates[2]],
                                 region_data[ThreeRates[3]]))

\* A fitted series on a curved quadratic (its middle price is not the mean of
\* the outer two), asked at a rate that is not an observed one.
WitC7 ==
    /\ out.fitted /\ Cardinality(LagValues) >= 3
    /\ OnOneQuadratic(region_data[ThreeRates[1]], region_data[ThreeRates[2]],
                      region_data[ThreeRates[3]])
    /\ QuadraticAt(region_data[ThreeRates[1]], region_data[ThreeRates[2]],
                   region_data[ThreeRates[3]], 0)
         # QuadraticAt(region_data[ThreeRates[1]], region_data[ThreeRates[2]],
                       region_data[ThreeRates[3]], 1) * 2
           - QuadraticAt(region_data[ThreeRates[1]], region_data[ThreeRates[2]],
                         region_data[ThreeRates[3]], 2)
    /\ widgets.input_rate \notin LagValues

(***************************************************************************)
(* C8: when a series is fitted, every row of the selected region that has  *)
(* a lagged rate and whose year-month label lies between the selected      *)
(* start and end labels, ends included, is in the series.                  *)
(***************************************************************************)
CexC8 ==
    out.fitted =>
        \A i \in 1..Len(data) :
            ( /\ data[i].region = widgets.region
              /\ data[i].lag # NA
              /\ LabelLeq(widgets.start_ym, data[i].ym)
              /\ LabelLeq(data[i].ym, widgets.end_ym) )
            => \E j \in 1..Len(region_data) : region_data[j].idx = data[i].idx

(***************************************************************************)
(* C9: when a series is fitted with a lag of k months, the lagged rate of  *)
(* every observation dated in month m is a rate the selected region has in *)
(* the file for calendar month m - k.                                      *)
(***************************************************************************)
CexC9 ==
    out.fitted =>
        \A i \in 1..Len(region_data) :
            \E j \in 1..Len(csv) :
                /\ csv[j].region = widgets.region
                /\ MonthIndex(csv[j].date)
                       = MonthIndex(region_data[i].date) - widgets.lag_months
                /\ csv[j].rate = region_data[i].lag

(***************************************************************************)
(* C10: whenever the quadratic model is fitted, the series has at least 3  *)
(* distinct lagged rates.                                                  *)
(***************************************************************************)
CexC10 == out.fitted => Cardinality(LagValues) >= 3

====
